---- MODULE Spec2Model ----
(***************************************************************************)
(* Slot reservation and lease engine of psychobotV1 (app/utils_slots.py)   *)
(* and the adapters that call it (chat flow, web form, operator buttons).  *)
(*                                                                         *)
(* The store is a transactional row store.  SELECT ... FOR UPDATE takes an *)
(* exclusive lock on the slot row that is kept until the transaction of    *)
(* the session ends (commit, or the close of the session); a plain SELECT  *)
(* takes no lock and reads committed data; the ORM writes, at commit, only *)
(* the columns that were assigned.  Every await of the code is a point     *)
(* where another session may run, so every operation is modelled statement *)
(* by statement: the locking read, then the check, the write and the       *)
(* commit (nothing can touch a locked row in between, so these are one     *)
(* step), then the close of the session.                                   *)
(***************************************************************************)
EXTENDS Integers, Sequences, FiniteSets, TLC

\* ------------------------------------------------------------------ bounds
MaxTime == 20            \* the clock stops here (minutes)
TickStep == 5            \* minutes between two observations of the clock
MaxRequests == 2         \* requests the adapters may create

\* --------------------------------------------------------------- constants
HOLD_DURATION_MINUTES == 15

NULL == 0                \* SQL NULL / Python None for ids and instants
Procs == {1, 2}          \* concurrently running sessions
Other(p) == 3 - p
BotProc == 1             \* the chat application: one handler at a time
WebProc == 2             \* the web application
Users == {1}             \* chat users (Request.user_id; the web form stores 0)

SlotStatus == {"AVAILABLE", "HELD", "BOOKED"}
RequestStatus == {"PENDING", "NEGOTIATING", "CONFIRMED", "REJECTED"}

VARIABLES
  now,            \* datetime.utcnow(), in minutes
  slots,          \* table slots: id -> row
  requests,       \* table requests: sequence of rows, id = index
  rowLock,        \* slot id -> session holding its FOR UPDATE lock, or NULL
  pc,             \* per session: where it stands in its operation
  call,           \* per session: the operation and its arguments
  row,            \* per session: the Slot object the locking SELECT loaded
  result,         \* per session: what the last operation returned
  sweepPc,        \* the cleanup job: "idle" or "selected"
  expired,        \* the cleanup job: slot id -> updated_at assigned to the loaded object
  conv,           \* per chat user: "ACTIVE" inside the booking conversation
  selected,       \* per chat user: user_data['selected_slot_id'], or NULL
  confirmedSince, \* history: requests confirmed on a slot since its last releaseBooked
  holdRace,       \* history: "on" while two hold calls overlap on an AVAILABLE slot
  holder,         \* history: slot id -> session whose hold_slot made it HELD, or NULL
  admin           \* the operator's slot-creation conversation and its user_data

vars == <<now, slots, requests, rowLock, pc, call, row, result, sweepPc,
          expired, conv, selected, confirmedSince, holdRace, holder, admin>>

\* ------------------------------------------------------------------- rows
NewSlot(start, end, online) ==
  [start_time |-> start, end_time |-> end, is_online |-> online,
   status |-> "AVAILABLE", booked_request_id |-> NULL, updated_at |-> 0]

NewRequest(user, slot, desired) ==
  [user_id |-> user, status |-> "PENDING", slot_id |-> slot,
   desired_time |-> desired, scheduled_datetime |-> NULL, final_time |-> NULL]

NoCall == [op |-> "none", slot |-> NULL, req |-> NULL, flag |-> FALSE, user |-> NULL]
NoRow == [found |-> FALSE, status |-> "none", start_time |-> NULL]

\* The Slot object a SELECT returns (scalar_one_or_none).
LoadSlot(s) ==
  IF s \in DOMAIN slots
    THEN [found |-> TRUE, status |-> slots[s].status,
          start_time |-> slots[s].start_time]
    ELSE NoRow

\* ---------------------------------------------------------- row locking
\* select(Slot).where(Slot.id == s).with_for_update(): waits for the row
\* lock, takes it, loads the row.  A missing row locks nothing.
\* (variant: a plain SELECT, without with_for_update())
SelectForUpdateNoLock(p, s) ==
  /\ row' = [row EXCEPT ![p] = LoadSlot(s)]
  /\ UNCHANGED rowLock

SelectForUpdate(p, s) ==
  /\ s \in DOMAIN slots => rowLock[s] \in {NULL, p}
  /\ row' = [row EXCEPT ![p] = LoadSlot(s)]
  /\ rowLock' = [x \in DOMAIN rowLock |-> IF x = s THEN p ELSE rowLock[x]]

\* The end of a session's transaction releases every lock it holds.
Unlocked(p) == [x \in DOMAIN rowLock |-> IF rowLock[x] = p THEN NULL ELSE rowLock[x]]

\* ------------------------------------------------------------ hold_slot
\* (variant: only a BOOKED slot is refused, so a HELD slot can be held again)
hold_slot_result_refuses_booked_only(r) ==
  IF ~r.found THEN "NotFound"
  ELSE IF r.status = "BOOKED" THEN "NotAvailable"
  ELSE "ok"

hold_slot_result(r) ==
  IF ~r.found THEN "NotFound"
  ELSE IF r.status # "AVAILABLE" THEN "NotAvailable"
  ELSE "ok"

hold_slot_write(s) ==
  [slots EXCEPT ![s].status = "HELD", ![s].updated_at = now]

\* --------------------------------------------------------- release_hold
\* (variant: whatever is not AVAILABLE is released, a BOOKED slot too)
release_hold_result_unless_available(r) ==
  IF ~r.found \/ r.status = "AVAILABLE" THEN "noop" ELSE "ok"

release_hold_result(r) ==
  IF ~r.found \/ r.status # "HELD" THEN "noop" ELSE "ok"

\* (variant: the lease is refreshed but the status is not reset)
release_hold_write_keeps_held(s) ==
  [slots EXCEPT ![s].updated_at = now]

release_hold_write(s) ==
  [slots EXCEPT ![s].status = "AVAILABLE", ![s].updated_at = now]

\* ------------------------------------------------- confirm_slot_booking
\* (variant: any slot that is not yet BOOKED may be booked)
confirm_slot_booking_result_unless_booked(r) ==
  IF ~r.found THEN "NotFound"
  ELSE IF r.status = "BOOKED" THEN "WrongState"
  ELSE "ok"

\* (variant: a hold older than the lease can no longer be confirmed)
confirm_slot_booking_result_within_lease(r) ==
  IF ~r.found THEN "NotFound"
  ELSE IF r.status # "HELD" THEN "WrongState"
  ELSE IF \E s \in DOMAIN slots :
            /\ slots[s].start_time = r.start_time
            /\ slots[s].updated_at < now - HOLD_DURATION_MINUTES
         THEN "WrongState"
  ELSE "ok"

confirm_slot_booking_result(r) ==
  IF ~r.found THEN "NotFound"
  ELSE IF r.status # "HELD" THEN "WrongState"
  ELSE "ok"

confirm_slot_booking_slot(s, rid) ==
  [slots EXCEPT ![s].status = "BOOKED", ![s].booked_request_id = rid,
                ![s].updated_at = now]

\* (variant: the request's slot_id is left as it was)
confirm_slot_booking_request_unlinked(s, rid, start, auto) ==
  IF rid \in DOMAIN requests
    THEN [requests EXCEPT
            ![rid].scheduled_datetime = start,
            ![rid].status = IF auto THEN "CONFIRMED" ELSE @,
            ![rid].final_time = IF auto THEN start ELSE @]
    ELSE requests

\* (variant: the request is confirmed whatever auto_confirm_request says)
confirm_slot_booking_request_always_confirms(s, rid, start, auto) ==
  IF rid \in DOMAIN requests
    THEN [requests EXCEPT
            ![rid].slot_id = s,
            ![rid].scheduled_datetime = start,
            ![rid].status = "CONFIRMED",
            ![rid].final_time = start]
    ELSE requests

\* "if request:" - a request id that is not stored writes nothing.
confirm_slot_booking_request(s, rid, start, auto) ==
  IF rid \in DOMAIN requests
    THEN [requests EXCEPT
            ![rid].slot_id = s,
            ![rid].scheduled_datetime = start,
            ![rid].status = IF auto THEN "CONFIRMED" ELSE @,
            ![rid].final_time = IF auto THEN start ELSE @]
    ELSE requests

\* -------------------------------------------------- release_booked_slot
release_booked_slot_result(r) ==
  IF ~r.found THEN "NotFound" ELSE "ok"

\* (variant: the status is reset but booked_request_id is kept)
release_booked_slot_write_keeps_request(s) ==
  [slots EXCEPT ![s].status = "AVAILABLE", ![s].updated_at = now]

release_booked_slot_write(s) ==
  [slots EXCEPT ![s].status = "AVAILABLE", ![s].booked_request_id = NULL,
                ![s].updated_at = now]

\* ------------------------------------------------ release_expired_holds
\* (variant: the SELECT filters on BOOKED instead of HELD)
release_expired_select_booked ==
  {s \in DOMAIN slots :
     /\ slots[s].status = "BOOKED"
     /\ slots[s].updated_at < now - HOLD_DURATION_MINUTES}

\* The plain SELECT of the cleanup job: no lock is taken.
release_expired_select ==
  {s \in DOMAIN slots :
     /\ slots[s].status = "HELD"
     /\ slots[s].updated_at < now - HOLD_DURATION_MINUTES}

\* The loop over the loaded objects assigns status and updated_at
\* (datetime.utcnow() of that moment) to each of them.
release_expired_assign == [s \in release_expired_select |-> now]

\* The flush at commit: UPDATE slots SET status, updated_at WHERE id = s,
\* for every object loaded, whatever the row holds by now.
release_expired_write(objs) ==
  [s \in DOMAIN slots |->
     IF s \in DOMAIN objs
       THEN [slots[s] EXCEPT !.status = "AVAILABLE", !.updated_at = objs[s]]
       ELSE slots[s]]

\* ------------------------------------------------------- history variables
\* A write to the slot by anything but one of the two racing holds ends the
\* observation of a pair of overlapping holds.
RaceAfterWrite == IF holdRace = "on" THEN "broken" ELSE holdRace

\* Two hold calls overlap on an AVAILABLE slot: q's call is in flight (it has
\* not yet written) when p issues its own on the same stored slot.
RaceStarts(p, c) ==
  /\ c.op = "hold"
  /\ c.slot \in DOMAIN slots
  /\ slots[c.slot].status = "AVAILABLE"
  /\ pc[Other(p)] \in {"select", "locked"}
  /\ call[Other(p)].op = "hold"
  /\ call[Other(p)].slot = c.slot

\* ------------------------------------------------ steps every session takes
\* The first statement of every core operation: the locking SELECT.
Select(p) ==
  /\ pc[p] = "select"
  /\ SelectForUpdate(p, call[p].slot)
  /\ pc' = [pc EXCEPT ![p] = "locked"]
  /\ UNCHANGED <<admin, now, slots, requests, call, result, sweepPc, expired, conv,
                 selected, confirmedSince, holder, holdRace>>

\* The caller leaves its session (async with ... as session): an open
\* transaction is rolled back and its lock released.
Close(p) ==
  /\ pc[p] = "returned"
  /\ pc' = [pc EXCEPT ![p] = "idle"]
  /\ rowLock' = Unlocked(p)
  /\ call' = [call EXCEPT ![p] = NoCall]
  /\ UNCHANGED <<admin, now, slots, requests, row, result, sweepPc, expired, conv,
                 selected, confirmedSince, holder, holdRace>>

\* The session whose hold is in force on a slot, kept beside the store: a
\* successful hold_slot grants it, every other write of the status ends it.
Granted(res, s, who) ==
  IF res = "ok" THEN [holder EXCEPT ![s] = who] ELSE holder

\* The rest of a core operation, up to its return.  A successful operation
\* commits, which releases the lock and leaves the session nothing to undo;
\* a failing one returns with the transaction still open, lock included,
\* until the caller leaves the session.
Returned(p, res) ==
  /\ pc' = [pc EXCEPT ![p] = IF res = "ok" THEN "idle" ELSE "returned"]
  /\ result' = [result EXCEPT ![p] = res]
  /\ rowLock' = IF res = "ok" THEN Unlocked(p) ELSE rowLock
  /\ call' = [call EXCEPT ![p] = IF res = "ok" THEN NoCall ELSE @]
  /\ row' = [row EXCEPT ![p] = NoRow]

\* --------------------------------------------- callers of the core (Spec)
CoreCalls(S, R) ==
  {[op |-> o, slot |-> s, req |-> NULL, flag |-> FALSE, user |-> NULL] :
     o \in {"hold", "release", "releaseBooked"}, s \in S}
  \cup {[op |-> "confirm", slot |-> s, req |-> r, flag |-> f, user |-> NULL] :
     s \in S, r \in R, f \in BOOLEAN}

Issue(p, c) ==
  /\ pc[p] = "idle"
  /\ call' = [call EXCEPT ![p] = c]
  /\ holdRace' = IF RaceStarts(p, c) THEN "on" ELSE "none"
  /\ pc' = [pc EXCEPT ![p] = "select"]
  /\ result' = [result EXCEPT ![p] = "none"]
  /\ UNCHANGED <<admin, now, slots, requests, rowLock, row, sweepPc, expired, conv,
                 selected, confirmedSince, holder>>

\* A caller opens a session and issues one operation of the core on a
\* stored slot, for a stored request.
Call(p) == \E c \in CoreCalls(DOMAIN slots, DOMAIN requests) : Issue(p, c)

HoldFinish(p) ==
  /\ pc[p] = "locked" /\ call[p].op = "hold"
  /\ LET res == hold_slot_result(row[p]) IN
       /\ Returned(p, res)
       /\ slots' = IF res = "ok" THEN hold_slot_write(call[p].slot) ELSE slots
       /\ holder' = Granted(res, call[p].slot, p)
  /\ UNCHANGED <<admin, now, requests, sweepPc, expired, conv, selected,
                 confirmedSince, holdRace>>

ReleaseFinish(p) ==
  /\ pc[p] = "locked" /\ call[p].op = "release"
  /\ LET res == release_hold_result(row[p]) IN
       /\ Returned(p, res)
       /\ slots' = IF res = "ok" THEN release_hold_write(call[p].slot) ELSE slots
       /\ holder' = Granted(res, call[p].slot, NULL)
       /\ holdRace' = IF res = "ok" THEN RaceAfterWrite ELSE holdRace
  /\ UNCHANGED <<admin, now, requests, sweepPc, expired, conv, selected, confirmedSince>>

ConfirmFinish(p) ==
  /\ pc[p] = "locked" /\ call[p].op = "confirm"
  /\ LET res == confirm_slot_booking_result(row[p])
         s == call[p].slot
         r == call[p].req
     IN
       /\ Returned(p, res)
       /\ slots' = IF res = "ok" THEN confirm_slot_booking_slot(s, r) ELSE slots
       /\ requests' = IF res = "ok"
                        THEN confirm_slot_booking_request(s, r, row[p].start_time, call[p].flag)
                        ELSE requests
       /\ confirmedSince' = IF res = "ok"
                              THEN [confirmedSince EXCEPT ![s] = @ \cup {r}]
                              ELSE confirmedSince
       /\ holder' = Granted(res, s, NULL)
       /\ holdRace' = IF res = "ok" THEN RaceAfterWrite ELSE holdRace
  /\ UNCHANGED <<admin, now, sweepPc, expired, conv, selected>>

ReleaseBookedFinish(p) ==
  /\ pc[p] = "locked" /\ call[p].op = "releaseBooked"
  /\ LET res == release_booked_slot_result(row[p])
         s == call[p].slot
     IN
       /\ Returned(p, res)
       /\ slots' = IF res = "ok" THEN release_booked_slot_write(s) ELSE slots
       /\ confirmedSince' = IF res = "ok"
                              THEN [confirmedSince EXCEPT ![s] = {}]
                              ELSE confirmedSince
       /\ holder' = Granted(res, s, NULL)
       /\ holdRace' = IF res = "ok" THEN RaceAfterWrite ELSE holdRace
  /\ UNCHANGED <<admin, now, requests, sweepPc, expired, conv, selected>>

\* ------------------------------------------------------- the cleanup job
SweepSelect ==
  /\ sweepPc = "idle"
  /\ expired' = release_expired_assign
  /\ sweepPc' = IF release_expired_select = {} THEN "idle" ELSE "selected"
  /\ UNCHANGED <<admin, now, slots, requests, rowLock, pc, call, row, result, conv,
                 selected, confirmedSince, holder, holdRace>>

\* count > 0: the commit flushes one UPDATE per loaded slot; each UPDATE
\* waits for the row's lock, and the commit releases them all.
SweepCommit ==
  /\ sweepPc = "selected"
  /\ \A s \in DOMAIN expired : rowLock[s] = NULL
  /\ slots' = release_expired_write(expired)
  /\ holder' = [s \in DOMAIN holder |-> IF s \in DOMAIN expired THEN NULL ELSE holder[s]]
  /\ sweepPc' = "idle"
  /\ expired' = <<>>
  /\ holdRace' = RaceAfterWrite
  /\ UNCHANGED <<admin, now, requests, rowLock, pc, call, row, result, conv,
                 selected, confirmedSince>>

\* ---------------------------------------------------------------- clock
Tick ==
  /\ now + TickStep <= MaxTime
  /\ now' = now + TickStep
  /\ UNCHANGED <<admin, slots, requests, rowLock, pc, call, row, result, sweepPc,
                 expired, conv, selected, confirmedSince, holder, holdRace>>

\* ------------------------------------------------------------------ Spec
\* Nobody is creating a slot: no conversation, empty user_data, no overlap
\* question on screen.
NoAdmin ==
  [state |-> "END", admin_tz_offset |-> 0, slot_is_online |-> FALSE,
   slot_date |-> 0, slot_start_local |-> 0, slot_utc |-> <<>>,
   question |-> FALSE]

SessionsInit ==
  /\ now = 0
  /\ pc = [p \in Procs |-> "idle"]
  /\ call = [p \in Procs |-> NoCall]
  /\ row = [p \in Procs |-> NoRow]
  /\ result = [p \in Procs |-> "none"]
  /\ sweepPc = "idle"
  /\ expired = <<>>
  /\ conv = [u \in Users |-> "END"]
  /\ selected = [u \in Users |-> NULL]
  /\ holdRace = "none"
  /\ admin = NoAdmin

\* Two concurrent callers of the core, the cleanup job and the clock, on
\* one stored slot and two stored requests.
Init ==
  /\ SessionsInit
  /\ slots = (1 :> NewSlot(60, 120, TRUE))
  /\ requests = <<NewRequest(1, NULL, NULL), NewRequest(1, NULL, NULL)>>
  /\ rowLock = (1 :> NULL)
  /\ confirmedSince = (1 :> {})
  /\ holder = [s \in DOMAIN slots |-> NULL]

Next ==
  \/ \E p \in Procs : Call(p)
  \/ \E p \in Procs : Select(p)
  \/ \E p \in Procs : HoldFinish(p)
  \/ \E p \in Procs : ReleaseFinish(p)
  \/ \E p \in Procs : ConfirmFinish(p)
  \/ \E p \in Procs : ReleaseBookedFinish(p)
  \/ \E p \in Procs : Close(p)
  \/ SweepSelect
  \/ SweepCommit
  \/ Tick

Spec == Init /\ [][Next]_vars

\* --------------------------------------------------------------- SpecSeq
\* One caller of the core at a time, with every kind of argument: slot 2 and
\* request 3 are not stored.
SlotArgs == {1, 2}
ReqArgs == {1, 2, 3}

CallAny(p) == \E c \in CoreCalls(SlotArgs, ReqArgs) : Issue(p, c)

NextSeq ==
  \/ CallAny(1)
  \/ Select(1)
  \/ HoldFinish(1)
  \/ ReleaseFinish(1)
  \/ ConfirmFinish(1)
  \/ ReleaseBookedFinish(1)
  \/ Close(1)
  \/ SweepSelect
  \/ SweepCommit
  \/ Tick

SpecSeq == Init /\ [][NextSeq]_vars

\* ======================================================================
\* The adapters: chat booking flow, web form, operator buttons (SpecApp)
\* ======================================================================
\* The chat application handles one update at a time (BotProc); the web
\* application (WebProc) and the cleanup job run beside it.

\* Entry point of the booking conversation.
start_consultation(u) ==
  /\ pc[BotProc] = "idle"
  /\ conv[u] = "END"
  /\ conv' = [conv EXCEPT ![u] = "ACTIVE"]
  /\ UNCHANGED <<admin, now, slots, requests, rowLock, pc, call, row, result,
                 sweepPc, expired, selected, confirmedSince, holder, holdRace>>

\* A slot button is pressed: hold_slot is called in a fresh session.
slot_selected_callback(u, s) ==
  /\ pc[BotProc] = "idle"
  /\ conv[u] = "ACTIVE"
  /\ pc' = [pc EXCEPT ![BotProc] = "select"]
  /\ call' = [call EXCEPT ![BotProc] =
                [op |-> "slot_selected", slot |-> s, req |-> NULL,
                 flag |-> FALSE, user |-> u]]
  /\ result' = [result EXCEPT ![BotProc] = "none"]
  /\ UNCHANGED <<admin, now, slots, requests, rowLock, row, sweepPc, expired, conv,
                 selected, confirmedSince, holder, holdRace>>

\* hold_slot returns: on success the slot id is kept in user_data; on
\* failure the user is told so, inside the session.
slot_selected_held ==
  /\ pc[BotProc] = "locked" /\ call[BotProc].op = "slot_selected"
  /\ LET res == hold_slot_result(row[BotProc])
         s == call[BotProc].slot
         u == call[BotProc].user
     IN
       /\ Returned(BotProc, res)
       /\ slots' = IF res = "ok" THEN hold_slot_write(s) ELSE slots
       /\ selected' = IF res = "ok" THEN [selected EXCEPT ![u] = s] ELSE selected
       /\ holder' = Granted(res, s, BotProc)
  /\ UNCHANGED <<admin, now, requests, sweepPc, expired, conv, confirmedSince, holdRace>>

\* Requests the web application is about to insert.
WebInFlight ==
  IF pc[WebProc] # "idle" /\ call[WebProc].op = "web_submit" /\ pc[WebProc] # "returned"
    THEN 1 ELSE 0

\* The last text of the conversation: the request is stored PENDING, and
\* with a selected slot confirm_slot_booking(auto_confirm_request=False)
\* follows in the same session.
contacts_step(u) ==
  /\ pc[BotProc] = "idle"
  /\ conv[u] = "ACTIVE"
  /\ Len(requests) + WebInFlight < MaxRequests
  /\ requests' = Append(requests,
                        NewRequest(u, NULL, IF selected[u] = NULL THEN 1 ELSE NULL))
  /\ IF selected[u] = NULL
       THEN /\ conv' = [conv EXCEPT ![u] = "END"]
            /\ UNCHANGED <<pc, call, result>>
       ELSE /\ pc' = [pc EXCEPT ![BotProc] = "select"]
            /\ call' = [call EXCEPT ![BotProc] =
                          [op |-> "contacts", slot |-> selected[u],
                           req |-> Len(requests) + 1, flag |-> FALSE, user |-> u]]
            /\ result' = [result EXCEPT ![BotProc] = "none"]
            /\ UNCHANGED conv
  /\ UNCHANGED <<admin, now, slots, rowLock, row, sweepPc, expired, selected,
                 confirmedSince, holder, holdRace>>

\* confirm_slot_booking returns: on failure the conversation ends at once
\* (user_data is kept); on success user_data is cleared.
contacts_step_confirmed ==
  /\ pc[BotProc] = "locked" /\ call[BotProc].op = "contacts"
  /\ LET res == confirm_slot_booking_result(row[BotProc])
         s == call[BotProc].slot
         r == call[BotProc].req
         u == call[BotProc].user
     IN
       /\ Returned(BotProc, res)
       /\ slots' = IF res = "ok" THEN confirm_slot_booking_slot(s, r) ELSE slots
       /\ requests' = IF res = "ok"
                        THEN confirm_slot_booking_request(s, r, row[BotProc].start_time,
                                                          call[BotProc].flag)
                        ELSE requests
       /\ confirmedSince' = IF res = "ok"
                              THEN [confirmedSince EXCEPT ![s] = @ \cup {r}]
                              ELSE confirmedSince
       /\ holder' = Granted(res, s, NULL)
       /\ selected' = IF res = "ok" THEN [selected EXCEPT ![u] = NULL] ELSE selected
       /\ conv' = [conv EXCEPT ![u] = "END"]
  /\ UNCHANGED <<admin, now, sweepPc, expired, holdRace>>

\* POST /api/booking/submit: hold_slot, then the request is inserted with
\* slot_id set; confirm_slot_booking is not called.
submit_booking(s) ==
  /\ pc[WebProc] = "idle"
  /\ Len(requests) < MaxRequests
  /\ pc' = [pc EXCEPT ![WebProc] = "select"]
  /\ call' = [call EXCEPT ![WebProc] =
                [op |-> "web_submit", slot |-> s, req |-> NULL,
                 flag |-> FALSE, user |-> NULL]]
  /\ result' = [result EXCEPT ![WebProc] = "none"]
  /\ UNCHANGED <<admin, now, slots, requests, rowLock, row, sweepPc, expired, conv,
                 selected, confirmedSince, holder, holdRace>>

\* (variant: the request is inserted whatever hold_slot returned)
submit_booking_after_hold_unchecked(res) ==
  "web_add"

\* "if not success: raise HTTPException(400, ...)"
submit_booking_after_hold(res) ==
  IF res = "ok" THEN "web_add" ELSE "returned"

submit_booking_held ==
  /\ pc[WebProc] = "locked" /\ call[WebProc].op = "web_submit"
  /\ LET res == hold_slot_result(row[WebProc])
         s == call[WebProc].slot
     IN
       /\ result' = [result EXCEPT ![WebProc] = res]
       /\ row' = [row EXCEPT ![WebProc] = NoRow]
       /\ pc' = [pc EXCEPT ![WebProc] = submit_booking_after_hold(res)]
       /\ rowLock' = IF res = "ok" THEN Unlocked(WebProc) ELSE rowLock
       /\ slots' = IF res = "ok" THEN hold_slot_write(s) ELSE slots
       /\ holder' = Granted(res, s, WebProc)
  /\ UNCHANGED <<admin, now, requests, call, sweepPc, expired, conv, selected,
                 confirmedSince, holdRace>>

submit_booking_insert ==
  /\ pc[WebProc] = "web_add"
  /\ requests' = Append(requests, NewRequest(0, call[WebProc].slot, NULL))
  /\ pc' = [pc EXCEPT ![WebProc] = "idle"]
  /\ call' = [call EXCEPT ![WebProc] = NoCall]
  /\ UNCHANGED <<admin, now, slots, rowLock, row, result, sweepPc, expired, conv,
                 selected, confirmedSince, holder, holdRace>>

\* The Approve / Reject buttons of notify_admin_slot_request exist for the
\* requests of the chat flow whose slot was confirmed.
SlotButtons == {r \in DOMAIN requests :
                  requests[r].user_id # 0 /\ requests[r].slot_id # NULL}

\* (variant: the application built with concurrent_updates, a callback is
\* taken up while another one is still being handled)
UpdateQueueFree_concurrent(p) ==
  TRUE

\* ApplicationBuilder() without concurrent_updates: the next update of the
\* queue is taken up when the handler of the previous one has returned.
UpdateQueueFree(p) ==
  pc[p] = "idle"

\* (variant: only a REJECTED request is refused)
IsPending_unless_rejected(r) ==
  requests[r].status # "REJECTED"

\* "if req.status != RequestStatus.PENDING: ... return" of both handlers.
IsPending(r) ==
  requests[r].status = "PENDING"

slot_approve_callback(r) ==
  /\ UpdateQueueFree(BotProc)
  /\ r \in SlotButtons
  /\ requests' =
       IF IsPending(r) /\ requests[r].slot_id \in DOMAIN slots
         THEN [requests EXCEPT ![r].status = "CONFIRMED",
                               ![r].final_time = slots[requests[r].slot_id].start_time]
         ELSE requests
  /\ UNCHANGED <<admin, now, slots, rowLock, pc, call, row, result, sweepPc, expired,
                 conv, selected, confirmedSince, holder, holdRace>>

\* slot_reject: for a PENDING request, release_booked_slot on its slot in
\* the handler's session, then the request is set REJECTED.
slot_reject_callback(r) ==
  /\ UpdateQueueFree(BotProc)
  /\ r \in SlotButtons
  /\ IsPending(r)
  /\ pc' = [pc EXCEPT ![BotProc] = "select"]
  /\ call' = [call EXCEPT ![BotProc] =
                [op |-> "slot_reject", slot |-> requests[r].slot_id, req |-> r,
                 flag |-> FALSE, user |-> NULL]]
  /\ result' = [result EXCEPT ![BotProc] = "none"]
  /\ UNCHANGED <<admin, now, slots, requests, rowLock, row, sweepPc, expired, conv,
                 selected, confirmedSince, holder, holdRace>>

slot_reject_released ==
  /\ pc[BotProc] = "locked" /\ call[BotProc].op = "slot_reject"
  /\ LET res == release_booked_slot_result(row[BotProc])
         s == call[BotProc].slot
     IN
       /\ result' = [result EXCEPT ![BotProc] = res]
       /\ row' = [row EXCEPT ![BotProc] = NoRow]
       /\ rowLock' = IF res = "ok" THEN Unlocked(BotProc) ELSE rowLock
       /\ slots' = IF res = "ok" THEN release_booked_slot_write(s) ELSE slots
       /\ confirmedSince' = IF res = "ok"
                              THEN [confirmedSince EXCEPT ![s] = {}]
                              ELSE confirmedSince
       /\ holder' = Granted(res, s, NULL)
  /\ pc' = [pc EXCEPT ![BotProc] = "reject_commit"]
  /\ UNCHANGED <<admin, now, requests, call, sweepPc, expired, conv, selected, holdRace>>

slot_reject_commit ==
  /\ pc[BotProc] = "reject_commit"
  /\ requests' = [requests EXCEPT ![call[BotProc].req].status = "REJECTED"]
  /\ pc' = [pc EXCEPT ![BotProc] = "idle"]
  /\ rowLock' = Unlocked(BotProc)
  /\ call' = [call EXCEPT ![BotProc] = NoCall]
  /\ UNCHANGED <<admin, now, slots, row, result, sweepPc, expired, conv, selected,
                 confirmedSince, holder, holdRace>>

\* The Approve / Reject buttons of the request detail view.
admin_approve_request(r) ==
  /\ pc[BotProc] = "idle"
  /\ r \in DOMAIN requests
  /\ requests' = [requests EXCEPT
                    ![r].status = "CONFIRMED",
                    ![r].final_time = IF requests[r].desired_time # NULL
                                        THEN requests[r].desired_time ELSE @]
  /\ UNCHANGED <<admin, now, slots, rowLock, pc, call, row, result, sweepPc, expired,
                 conv, selected, confirmedSince, holder, holdRace>>

admin_reject_request(r) ==
  /\ pc[BotProc] = "idle"
  /\ r \in DOMAIN requests
  /\ requests' = [requests EXCEPT ![r].status = "REJECTED"]
  /\ UNCHANGED <<admin, now, slots, rowLock, pc, call, row, result, sweepPc, expired,
                 conv, selected, confirmedSince, holder, holdRace>>

\* After a failing hold_slot / confirm_slot_booking the chat handler sends
\* its error message (edit_message_text / reply_text) before it leaves the
\* "async with" block of its session.
Notifying(p) ==
  /\ pc[p] = "returned"
  /\ call[p].op \in {"slot_selected", "contacts"}

InitApp ==
  /\ SessionsInit
  /\ slots = (1 :> NewSlot(60, 120, TRUE))
  /\ requests = <<>>
  /\ rowLock = (1 :> NULL)
  /\ confirmedSince = (1 :> {})
  /\ holder = [s \in DOMAIN slots |-> NULL]

NextApp ==
  \/ \E u \in Users : start_consultation(u)
  \/ \E u \in Users, s \in DOMAIN slots : slot_selected_callback(u, s)
  \/ slot_selected_held
  \/ \E u \in Users : contacts_step(u)
  \/ contacts_step_confirmed
  \/ \E s \in DOMAIN slots : submit_booking(s)
  \/ submit_booking_held
  \/ submit_booking_insert
  \/ \E r \in DOMAIN requests : slot_approve_callback(r)
  \/ \E r \in DOMAIN requests : slot_reject_callback(r)
  \/ slot_reject_released
  \/ slot_reject_commit
  \/ \E r \in DOMAIN requests : admin_approve_request(r)
  \/ \E r \in DOMAIN requests : admin_reject_request(r)
  \/ \E p \in Procs : Select(p)
  \/ \E p \in Procs : Close(p)
  \/ SweepSelect
  \/ SweepCommit
  \/ Tick

SpecApp == InitApp /\ [][NextApp]_vars

\* ------------------------------------------------------------ SpecAppLive
\* What keeps running once started: the clock, the periodic cleanup job
\* (its UPDATE queues for the row lock and is served), and the code of a
\* handler between its locking SELECT and the close of its session.
\* ------------------------------------------------------------- SpecDecide
\* The booking flows with the slot_approve / slot_reject buttons as the
\* operator's only actions.  A button pressed on a request that is no
\* longer PENDING is answered "already processed" and the handler returns.
slot_decision_refused(r) ==
  /\ UpdateQueueFree(BotProc)
  /\ r \in SlotButtons
  /\ ~IsPending(r)
  /\ result' = [result EXCEPT ![BotProc] = "processed"]
  /\ UNCHANGED <<admin, now, slots, requests, rowLock, pc, call, row, sweepPc,
                 expired, conv, selected, confirmedSince, holder, holdRace>>

NextDecide ==
  \/ \E u \in Users : start_consultation(u)
  \/ \E u \in Users, s \in DOMAIN slots : slot_selected_callback(u, s)
  \/ slot_selected_held
  \/ \E u \in Users : contacts_step(u)
  \/ contacts_step_confirmed
  \/ \E s \in DOMAIN slots : submit_booking(s)
  \/ submit_booking_held
  \/ submit_booking_insert
  \/ \E r \in DOMAIN requests : slot_approve_callback(r)
  \/ \E r \in DOMAIN requests : slot_reject_callback(r)
  \/ slot_reject_released
  \/ slot_reject_commit
  \/ \E r \in DOMAIN requests : slot_decision_refused(r)
  \/ \E p \in Procs : Select(p)
  \/ \E p \in Procs : Close(p)
  \/ SweepSelect
  \/ SweepCommit
  \/ Tick

SpecDecide == InitApp /\ [][NextDecide]_vars

LastTick == (MaxTime \div TickStep) * TickStep

FairnessApp ==
  /\ WF_vars(Tick)
  /\ WF_vars(SweepSelect)
  /\ SF_vars(SweepCommit)
  /\ WF_vars(slot_selected_held)
  /\ WF_vars(contacts_step_confirmed)
  /\ WF_vars(submit_booking_held)
  /\ WF_vars(submit_booking_insert)
  /\ WF_vars(slot_reject_released)
  /\ WF_vars(slot_reject_commit)
  /\ \A p \in Procs : WF_vars(Select(p)) /\ WF_vars(Close(p))

SpecAppLive == InitApp /\ [][NextApp]_vars /\ FairnessApp

\* -------------------------------------------------------------- SpecSweep
\* Two slots, a caller that holds them, and a cleanup job whose commit may
\* fail: release_expired_holds flushes the UPDATEs of all loaded slots in
\* one transaction and catches nothing, so a database error on the UPDATE
\* of one row raises out of the commit and the transaction is rolled back.
HoldCall(p) ==
  \E s \in DOMAIN slots :
    Issue(p, [op |-> "hold", slot |-> s, req |-> NULL, flag |-> FALSE, user |-> NULL])

SweepCommitFails ==
  /\ sweepPc = "selected"
  /\ \E s \in DOMAIN expired : rowLock[s] = NULL
  /\ sweepPc' = "raised"
  /\ UNCHANGED <<admin, now, slots, requests, rowLock, pc, call, row, result, expired,
                 conv, selected, confirmedSince, holder, holdRace>>

\* The exception leaves release_expired_holds; the session is closed.
SweepRaised ==
  /\ sweepPc = "raised"
  /\ sweepPc' = "idle"
  /\ expired' = <<>>
  /\ UNCHANGED <<admin, now, slots, requests, rowLock, pc, call, row, result, conv,
                 selected, confirmedSince, holder, holdRace>>

InitSweep ==
  /\ SessionsInit
  /\ slots = (1 :> NewSlot(60, 120, TRUE)) @@ (2 :> NewSlot(120, 180, TRUE))
  /\ requests = <<>>
  /\ rowLock = (1 :> NULL) @@ (2 :> NULL)
  /\ confirmedSince = (1 :> {}) @@ (2 :> {})
  /\ holder = [s \in DOMAIN slots |-> NULL]

NextSweep ==
  \/ HoldCall(1)
  \/ Select(1)
  \/ HoldFinish(1)
  \/ Close(1)
  \/ SweepSelect
  \/ SweepCommit
  \/ SweepCommitFails
  \/ SweepRaised
  \/ Tick

SpecSweep == InitSweep /\ [][NextSweep]_vars

\* The chat application with two slots on offer: the booking conversation,
\* whose slot buttons are accepted in every state (consult_conv lists
\* slot_selected_callback under PROBLEM and under fallbacks), and the
\* operator's Approve / Reject buttons.
NextSession ==
  \/ \E u \in Users : start_consultation(u)
  \/ \E u \in Users, s \in DOMAIN slots : slot_selected_callback(u, s)
  \/ slot_selected_held
  \/ \E u \in Users : contacts_step(u)
  \/ contacts_step_confirmed
  \/ \E r \in DOMAIN requests : slot_approve_callback(r)
  \/ \E r \in DOMAIN requests : slot_reject_callback(r)
  \/ slot_reject_released
  \/ slot_reject_commit
  \/ \E p \in Procs : Select(p)
  \/ \E p \in Procs : Close(p)
  \/ SweepSelect
  \/ SweepCommit
  \/ Tick

SpecSession == InitSweep /\ [][NextSession]_vars

\* -------------------------------------------------------- SpecHoldRelease
\* Two concurrent callers that only hold and release, the cleanup job and
\* the clock.
HoldOrReleaseCall(p) ==
  \E o \in {"hold", "release"}, s \in DOMAIN slots :
    Issue(p, [op |-> o, slot |-> s, req |-> NULL, flag |-> FALSE, user |-> NULL])

NextHoldRelease ==
  \/ \E p \in Procs : HoldOrReleaseCall(p)
  \/ \E p \in Procs : Select(p)
  \/ \E p \in Procs : HoldFinish(p)
  \/ \E p \in Procs : ReleaseFinish(p)
  \/ \E p \in Procs : Close(p)
  \/ SweepSelect
  \/ SweepCommit
  \/ Tick

SpecHoldRelease == Init /\ [][NextHoldRelease]_vars

\* -------------------------------------------------------------- SpecLease
\* The callers that hold and release, the cleanup job and the clock, on a
\* slot whose hold was granted longer ago than the lease lasts.
InitLease ==
  /\ SessionsInit
  /\ slots = (1 :> [NewSlot(60, 120, TRUE) EXCEPT
                      !.status = "HELD",
                      !.updated_at = 0 - HOLD_DURATION_MINUTES - TickStep])
  /\ requests = <<>>
  /\ rowLock = (1 :> NULL)
  /\ confirmedSince = (1 :> {})
  /\ holder = [s \in DOMAIN slots |-> NULL]

SpecLease == InitLease /\ [][NextHoldRelease]_vars

\* ======================================================================
\* Queries and validation (pure functions of their arguments and the store)
\* ======================================================================
\* A query is recorded as the call of session 1 and its value as the result.
Asked(c, v) ==
  /\ call' = [call EXCEPT ![1] = c]
  /\ result' = [result EXCEPT ![1] = v]
  /\ UNCHANGED <<admin, now, slots, requests, rowLock, pc, row, sweepPc, expired,
                 conv, selected, confirmedSince, holder, holdRace>>

\* ----------------------------------------------------- check_slot_overlap
\* exclude_slot_id is Optional[int]: {} stands for None, {n} for the id n.
\* "if exclude_slot_id:" is false for None and for 0.
Truthy(x) == x # {} /\ x # {0}

\* (variant: intervals that touch at an endpoint count as overlapping)
check_slot_overlap_closed(start_time, end_time, is_online, exclude_slot_id) ==
  \E s \in DOMAIN slots :
    /\ slots[s].is_online = is_online
    /\ slots[s].start_time <= end_time
    /\ slots[s].end_time >= start_time
    /\ Truthy(exclude_slot_id) => {s} # exclude_slot_id

check_slot_overlap(start_time, end_time, is_online, exclude_slot_id) ==
  \E s \in DOMAIN slots :
    /\ slots[s].is_online = is_online
    /\ slots[s].start_time < end_time
    /\ slots[s].end_time > start_time
    /\ Truthy(exclude_slot_id) => {s} # exclude_slot_id

\* ------------------------------------------------------------ SpecOverlap
\* Instants of the overlap queries, and the intervals between them.
MaxInstant == 3
Instants == 0..MaxInstant
Intervals == {iv \in Instants \X Instants : iv[1] < iv[2]}
ExcludeArgs == {{}} \cup {{n} : n \in 0..3}

\* Stores of two slots (ids start at 1) of any class and interval.
StoredSlot(iv, online) == NewSlot(iv[1], iv[2], online)

InitOverlap ==
  /\ SessionsInit
  /\ \E iv1 \in Intervals, iv2 \in Intervals, o1 \in BOOLEAN, o2 \in BOOLEAN :
       slots = (1 :> StoredSlot(iv1, o1)) @@ (2 :> StoredSlot(iv2, o2))
  /\ requests = <<>>
  /\ rowLock = (1 :> NULL) @@ (2 :> NULL)
  /\ confirmedSince = (1 :> {}) @@ (2 :> {})
  /\ holder = [s \in DOMAIN slots |-> NULL]

CheckOverlap ==
  \E iv \in Intervals, o \in BOOLEAN, x \in ExcludeArgs :
    Asked([op |-> "check_slot_overlap", start_time |-> iv[1], end_time |-> iv[2],
           is_online |-> o, exclude_slot_id |-> x],
          check_slot_overlap(iv[1], iv[2], o, x))

NextOverlap == CheckOverlap

SpecOverlap == InitOverlap /\ [][NextOverlap]_vars

\* ======================================================================
\* Slot creation (the operator's conversation)
\* ======================================================================
MaxSlots == 2            \* slots the operator creates in one run
Day == 1440              \* timedelta(days=1), in minutes

TzOffsets == {5}                         \* admin_tz_offset, parsed
SlotDates == {0}                         \* slot_date, as days
StartClock == {10, 25, 1435}             \* start HH:MM, as minutes of the day
EndClock == {10, 24, 25, 250, 251}       \* end HH:MM, as minutes of the day

\* ---------------------------------------------------------- conversions
utc_to_user_tz(utc_dt, offset_minutes) ==
  utc_dt + offset_minutes

\* (variant: the offset is added in both directions)
user_tz_to_utc_adding(user_dt, offset_minutes) ==
  user_dt + offset_minutes

user_tz_to_utc(user_dt, offset_minutes) ==
  user_dt - offset_minutes

\* ------------------------------------------------------ validate_slot_time
\* (variant: no upper limit on the duration)
validate_slot_time_no_maximum(start_time, end_time) ==
  IF start_time <= now THEN "Start time must be in the future"
  ELSE IF end_time <= start_time THEN "End time must be after start time"
  ELSE IF end_time - start_time < 15 THEN "Slot duration too short"
  ELSE ""

\* The error message; "" with is_valid = True.
validate_slot_time(start_time, end_time) ==
  IF start_time <= now THEN "Start time must be in the future"
  ELSE IF end_time <= start_time THEN "End time must be after start time"
  ELSE IF end_time - start_time < 15 THEN "Slot duration too short"
  ELSE IF end_time - start_time > 240 THEN "Slot duration too long"
  ELSE ""

\* ------------------------------------------------------------- handlers
NextSlotId == Cardinality(DOMAIN slots) + 1

\* session.add(Slot(..., status=AVAILABLE)); commit
AddSlot(start_utc, end_utc, is_online) ==
  /\ slots' = slots @@ (NextSlotId :> NewSlot(start_utc, end_utc, is_online))
  /\ rowLock' = rowLock @@ (NextSlotId :> NULL)
  /\ confirmedSince' = confirmedSince @@ (NextSlotId :> {})
  /\ holder' = holder @@ (NextSlotId :> NULL)

\* A handler of the conversation ran: what it was given and how it ended.
Handled(c, v) ==
  /\ call' = [call EXCEPT ![BotProc] = c]
  /\ result' = [result EXCEPT ![BotProc] = v]
  /\ UNCHANGED <<now, requests, pc, row, sweepPc, expired, conv, selected, holdRace>>

Step(name) == [op |-> name, data |-> "", start_utc |-> 0, end_utc |-> 0]

create_slot_start ==
  /\ admin.state = "END"
  /\ admin' = [admin EXCEPT !.state = "CREATE_SLOT_TYPE"]
  /\ Handled(Step("create_slot_start"), "asked")
  /\ UNCHANGED <<slots, rowLock, confirmedSince, holder>>

\* The timezone text has been parsed to its offset.
create_slot_type_input(offset) ==
  /\ admin.state = "CREATE_SLOT_TYPE"
  /\ admin' = [admin EXCEPT !.state = "CREATE_SLOT_DATE", !.admin_tz_offset = offset]
  /\ Handled(Step("create_slot_type_input"), "asked")
  /\ UNCHANGED <<slots, rowLock, confirmedSince, holder>>

create_slot_date_callback(data) ==
  /\ admin.state = "CREATE_SLOT_DATE"
  /\ admin' = IF data = "slot_cancel"
                THEN [admin EXCEPT !.state = "END"]
                ELSE [admin EXCEPT !.state = "CREATE_SLOT_START",
                                   !.slot_is_online = (data = "slot_online")]
  /\ Handled([Step("create_slot_date_callback") EXCEPT !.data = data], "asked")
  /\ UNCHANGED <<slots, rowLock, confirmedSince, holder>>

create_slot_start_input(slot_date) ==
  /\ admin.state = "CREATE_SLOT_START"
  /\ admin' = IF slot_date * Day + Day <= now
                THEN admin
                ELSE [admin EXCEPT !.state = "CREATE_SLOT_END", !.slot_date = slot_date]
  /\ Handled(Step("create_slot_start_input"), "asked")
  /\ UNCHANGED <<slots, rowLock, confirmedSince, holder>>

create_slot_end_input(start_time) ==
  /\ admin.state = "CREATE_SLOT_END"
  /\ admin' = [admin EXCEPT !.state = "CREATE_SLOT_CONFIRM",
                            !.slot_start_local = admin.slot_date * Day + start_time]
  /\ Handled(Step("create_slot_end_input"), "asked")
  /\ UNCHANGED <<slots, rowLock, confirmedSince, holder>>

create_slot_confirm_input(end_time) ==
  /\ admin.state = "CREATE_SLOT_CONFIRM"
  /\ NextSlotId <= MaxSlots
  /\ LET combined == admin.slot_date * Day + end_time
         end_dt_local == IF combined <= admin.slot_start_local
                           THEN combined + Day ELSE combined
         start_utc == user_tz_to_utc(admin.slot_start_local, admin.admin_tz_offset)
         end_utc == user_tz_to_utc(end_dt_local, admin.admin_tz_offset)
         c == [Step("create_slot_confirm_input") EXCEPT
                 !.start_utc = start_utc, !.end_utc = end_utc]
     IN
       IF validate_slot_time(start_utc, end_utc) # ""
         THEN /\ admin' = [admin EXCEPT !.state = "CREATE_SLOT_END"]
              /\ Handled(c, "InvalidTimeRange")
              /\ UNCHANGED <<slots, rowLock, confirmedSince, holder>>
         ELSE IF check_slot_overlap(start_utc, end_utc, admin.slot_is_online, {})
           THEN /\ admin' = [admin EXCEPT !.state = "END", !.question = TRUE,
                                          !.slot_utc = <<start_utc, end_utc>>]
                /\ Handled(c, "overlap")
                /\ UNCHANGED <<slots, rowLock, confirmedSince, holder>>
           ELSE /\ admin' = [admin EXCEPT !.state = "END"]
                /\ AddSlot(start_utc, end_utc, admin.slot_is_online)
                /\ Handled(c, "created")

\* A button of the overlap question is pressed; the edited message has no
\* buttons any more.
create_slot_overlap_callback(data) ==
  /\ admin.question
  /\ NextSlotId <= MaxSlots
  /\ admin' = [admin EXCEPT !.question = FALSE]
  /\ LET c == [Step("create_slot_overlap_callback") EXCEPT !.data = data,
                 !.start_utc = admin.slot_utc[1], !.end_utc = admin.slot_utc[2]]
     IN
       IF data = "slot_create_no"
         THEN /\ Handled(c, "cancelled")
              /\ UNCHANGED <<slots, rowLock, confirmedSince, holder>>
         ELSE /\ AddSlot(admin.slot_utc[1], admin.slot_utc[2], admin.slot_is_online)
              /\ Handled(c, "created")

InitCreate ==
  /\ SessionsInit
  /\ slots = <<>>
  /\ requests = <<>>
  /\ rowLock = <<>>
  /\ confirmedSince = <<>>
  /\ holder = [s \in DOMAIN slots |-> NULL]

NextCreate ==
  \/ create_slot_start
  \/ \E offset \in TzOffsets : create_slot_type_input(offset)
  \/ \E data \in {"slot_online", "slot_onsite", "slot_cancel"} :
       create_slot_date_callback(data)
  \/ \E d \in SlotDates : create_slot_start_input(d)
  \/ \E t \in StartClock : create_slot_end_input(t)
  \/ \E t \in EndClock : create_slot_confirm_input(t)
  \/ \E data \in {"slot_create_yes", "slot_create_no"} :
       create_slot_overlap_callback(data)
  \/ Tick

SpecCreate == InitCreate /\ [][NextCreate]_vars

\* ======================================================================
\* parse_utc_offset
\* ======================================================================
\* A str is a sequence of one-character strings; Optional[int] is {} for
\* None and {n} for n; a raised ValueError is {} as well.
Digits == <<"0", "1", "2", "3", "4", "5", "6", "7", "8", "9">>

IsDigit(c) == \E i \in DOMAIN Digits : Digits[i] = c

DigitVal(c) == (CHOOSE i \in DOMAIN Digits : Digits[i] = c) - 1

RECURSIVE DecVal(_)
DecVal(s) ==
  IF s = <<>> THEN 0
  ELSE 10 * DecVal(SubSeq(s, 1, Len(s) - 1)) + DigitVal(s[Len(s)])

\* str.strip()
RECURSIVE lstrip(_)
lstrip(s) == IF s # <<>> /\ s[1] = " " THEN lstrip(Tail(s)) ELSE s

RECURSIVE rstrip(_)
rstrip(s) ==
  IF s # <<>> /\ s[Len(s)] = " " THEN rstrip(SubSeq(s, 1, Len(s) - 1)) ELSE s

strip(s) == rstrip(lstrip(s))

\* str.upper()
upper(s) ==
  [i \in DOMAIN s |->
     CASE s[i] = "u" -> "U" [] s[i] = "t" -> "T" [] s[i] = "c" -> "C"
       [] s[i] = "g" -> "G" [] s[i] = "m" -> "M" [] OTHER -> s[i]]

startswith(s, prefix) ==
  Len(s) >= Len(prefix) /\ SubSeq(s, 1, Len(prefix)) = prefix

\* s[n:]
From(s, n) == SubSeq(s, n + 1, Len(s))

\* int(s): surrounding whitespace and one leading sign are accepted, then
\* at least one digit and nothing else.
int(s) ==
  LET t == strip(s)
      signed == t # <<>> /\ t[1] \in {"+", "-"}
      digits == IF signed THEN Tail(t) ELSE t
  IN IF digits # <<>> /\ \A i \in DOMAIN digits : IsDigit(digits[i])
       THEN {IF signed /\ t[1] = "-" THEN 0 - DecVal(digits) ELSE DecVal(digits)}
       ELSE {}

\* hours, minutes = s.split(':') -- unpacking anything but two parts raises.
split_colon(s) ==
  LET colons == {i \in DOMAIN s : s[i] = ":"}
  IN IF Cardinality(colons) = 1
       THEN LET i == CHOOSE j \in colons : TRUE
            IN {<<SubSeq(s, 1, i - 1), From(s, i)>>}
       ELSE {}

\* (variant: offsets up to +15:00 are accepted)
offset_in_range_to_15h(total_minutes) ==
  0 - 720 <= total_minutes /\ total_minutes <= 900

offset_in_range(total_minutes) ==
  0 - 720 <= total_minutes /\ total_minutes <= 840

parse_utc_offset(offset_str) ==
  LET s == upper(strip(offset_str))
  IN IF ~(startswith(s, <<"G", "M", "T">>) \/ startswith(s, <<"U", "T", "C">>))
       THEN {}
     ELSE
       LET signed == From(s, 3)
       IN IF ~(startswith(signed, <<"+">>) \/ startswith(signed, <<"-">>))
            THEN {}
          ELSE
            LET sign == IF signed[1] = "+" THEN 1 ELSE 0 - 1
                rest == From(signed, 1)
                parts == IF \E i \in DOMAIN rest : rest[i] = ":"
                           THEN split_colon(rest)
                           ELSE {<<rest, <<"0">> >>}
            IN IF parts = {} THEN {}
               ELSE
                 LET hm == CHOOSE x \in parts : TRUE
                     hours == int(hm[1])
                     minutes == int(hm[2])
                 IN IF hours = {} \/ minutes = {} THEN {}
                    ELSE
                      LET h == CHOOSE x \in hours : TRUE
                          m == CHOOSE x \in minutes : TRUE
                          total_minutes == sign * (h * 60 + m)
                      IN IF offset_in_range(total_minutes)
                           THEN {total_minutes} ELSE {}

\* ------------------------------------------------------------- SpecOffset
\* The texts an operator may type: prefix, gap, sign, hours, minutes, tail.
PrefixTexts == {<<"U", "T", "C">>, <<"G", "M", "T">>, <<"u", "t", "c">>, <<"G", "m", "t">>, <<"U", "T">>, <<>>, <<" ", "U", "T", "C">>}
GapTexts == {<<>>, <<" ">>}
SignTexts == {<<"+">>, <<"-">>, <<>>, <<"+", "-">>, <<"+", "+">>, <<"-", "+">>}
HourTexts ==
  {[text |-> <<"0">>, val |-> 0],
   [text |-> <<"4">>, val |-> 4],
   [text |-> <<"5">>, val |-> 5],
   [text |-> <<"0", "5">>, val |-> 5],
   [text |-> <<"1", "2">>, val |-> 12],
   [text |-> <<"1", "3">>, val |-> 13],
   [text |-> <<"1", "4">>, val |-> 14],
   [text |-> <<"1", "5">>, val |-> 15]}
MinuteTexts ==
  {[text |-> <<>>, val |-> 0],
   [text |-> <<":", "0", "0">>, val |-> 0],
   [text |-> <<":", "0", "1">>, val |-> 1],
   [text |-> <<":", "3", "0">>, val |-> 30]}
OddMinuteTexts == {<<":", "-", "3", "0">>, <<":", "+", "3", "0">>, <<":", "9", "0">>, <<":">>, <<":", "3", "0", ":", "0", "0">>, <<":", " ", "3", "0">>, <<":", "3">>}
TailTexts == {<<>>, <<" ">>}

OffsetTexts ==
  {p \o g \o sg \o h.text \o m \o tl :
     p \in PrefixTexts, g \in GapTexts, sg \in SignTexts, h \in HourTexts,
     m \in {x.text : x \in MinuteTexts} \cup OddMinuteTexts, tl \in TailTexts}
  \cup {p \o sg : p \in PrefixTexts, sg \in SignTexts}

\* The text typed is about to be parsed.
InitOffset ==
  /\ now = 0
  /\ pc = [p \in Procs |-> IF p = 1 THEN "called" ELSE "idle"]
  /\ \E text \in OffsetTexts :
       call = [p \in Procs |->
                IF p = 1 THEN [op |-> "parse_utc_offset", offset_str |-> text]
                         ELSE NoCall]
  /\ row = [p \in Procs |-> NoRow]
  /\ result = [p \in Procs |-> "none"]
  /\ sweepPc = "idle"
  /\ expired = <<>>
  /\ conv = [u \in Users |-> "END"]
  /\ selected = [u \in Users |-> NULL]
  /\ holdRace = "none"
  /\ admin = NoAdmin
  /\ slots = <<>>
  /\ requests = <<>>
  /\ rowLock = <<>>
  /\ confirmedSince = <<>>
  /\ holder = [s \in DOMAIN slots |-> NULL]

ParseOffset ==
  /\ pc[1] = "called"
  /\ pc' = [pc EXCEPT ![1] = "idle"]
  /\ result' = [result EXCEPT ![1] = parse_utc_offset(call[1].offset_str)]
  /\ UNCHANGED <<admin, now, slots, requests, rowLock, call, row, sweepPc,
                 expired, conv, selected, confirmedSince, holder, holdRace>>

Parsed == pc[1] = "idle" /\ call[1].op = "parse_utc_offset"

NextOffset == ParseOffset

SpecOffset == InitOffset /\ [][NextOffset]_vars

\* ======================================================================
\* get_available_slots
\* ======================================================================
MaxLimit == 3            \* largest limit asked for

\* (variant: the status is not filtered)
available_where_any_status(s, is_online, from_date, to_date) ==
  /\ slots[s].is_online = is_online
  /\ slots[s].start_time > (IF from_date # {} THEN CHOOSE x \in from_date : TRUE ELSE now)
  /\ to_date # {} => slots[s].start_time < (CHOOSE x \in to_date : TRUE)

\* The WHERE clause; from_date and to_date are Optional, {} for None.
available_where(s, is_online, from_date, to_date) ==
  /\ slots[s].status = "AVAILABLE"
  /\ slots[s].is_online = is_online
  /\ slots[s].start_time > (IF from_date # {} THEN CHOOSE x \in from_date : TRUE ELSE now)
  /\ to_date # {} => slots[s].start_time < (CHOOSE x \in to_date : TRUE)

Smaller(m, n) == IF m < n THEN m ELSE n

\* ORDER BY start_time LIMIT limit: every list the database may return
\* (rows with equal start_time come in any order).
get_available_slots(is_online, from_date, to_date, limit) ==
  LET rows == {s \in DOMAIN slots : available_where(s, is_online, from_date, to_date)}
      n == Smaller(limit, Cardinality(rows))
  IN {r \in [1..n -> rows] :
        /\ \A i, j \in 1..n : i < j =>
              r[i] # r[j] /\ slots[r[i]].start_time <= slots[r[j]].start_time
        /\ \A s \in rows : (\A i \in 1..n : r[i] # s) =>
              \A i \in 1..n : slots[r[i]].start_time <= slots[s].start_time}

\* ---------------------------------------------------------- SpecAvailable
StartTimes == {7, 12}
FromDates == {{}, {0}, {7}}
ToDates == {{}, {12}, {13}}

\* Three slots: the first AVAILABLE or HELD, the second AVAILABLE or BOOKED
\* for request 1, the third AVAILABLE.
InitAvailable ==
  /\ now = 0
  /\ pc = [p \in Procs |-> IF p = 1 THEN "called" ELSE "idle"]
  /\ \E o \in BOOLEAN, f \in FromDates, u \in ToDates, limit \in 0..MaxLimit :
       call = [p \in Procs |->
                IF p = 1 THEN [op |-> "get_available_slots", is_online |-> o,
                               from_date |-> f, to_date |-> u, limit |-> limit]
                         ELSE NoCall]
  /\ row = [p \in Procs |-> NoRow]
  /\ result = [p \in Procs |-> "none"]
  /\ sweepPc = "idle"
  /\ expired = <<>>
  /\ conv = [u \in Users |-> "END"]
  /\ selected = [u \in Users |-> NULL]
  /\ holdRace = "none"
  /\ admin = NoAdmin
  /\ \E t1 \in StartTimes, t2 \in StartTimes, t3 \in StartTimes,
        o1 \in BOOLEAN, o2 \in BOOLEAN, o3 \in BOOLEAN,
        st1 \in {"AVAILABLE", "HELD"}, st2 \in {"AVAILABLE", "BOOKED"} :
       /\ slots = (1 :> [NewSlot(t1, t1 + 1, o1) EXCEPT !.status = st1])
                @@ (2 :> [NewSlot(t2, t2 + 1, o2) EXCEPT
                            !.status = st2,
                            !.booked_request_id = IF st2 = "BOOKED" THEN 1 ELSE NULL])
                @@ (3 :> NewSlot(t3, t3 + 1, o3))
       /\ requests = <<NewRequest(1, IF st2 = "AVAILABLE" THEN NULL ELSE 2, NULL)>>
  /\ rowLock = [s \in 1..3 |-> NULL]
  /\ confirmedSince = [s \in 1..3 |-> {}]
  /\ holder = [s \in DOMAIN slots |-> NULL]

\* The read, at whatever time the clock shows.
GetAvailable ==
  /\ pc[1] = "called"
  /\ call[1].op = "get_available_slots"
  /\ pc' = [pc EXCEPT ![1] = "idle"]
  /\ \E r \in get_available_slots(call[1].is_online, call[1].from_date,
                                   call[1].to_date, call[1].limit) :
       result' = [result EXCEPT ![1] = r]
  /\ UNCHANGED <<admin, now, slots, requests, rowLock, call, row, sweepPc,
                 expired, conv, selected, confirmedSince, holder, holdRace>>

NextAvailable == GetAvailable \/ Tick

SpecAvailable == InitAvailable /\ [][NextAvailable]_vars

\* ======================================================================
\* utc_to_user_tz / user_tz_to_utc
\* ======================================================================
\* Offsets parse_utc_offset can return, and some instants (minutes).
OffsetRange == (0 - 720)..840
ConvertInstants == {0, 1, 719, 720, 840, 1439, 1440, 525600}

InitConvert ==
  /\ now = 0
  /\ pc = [p \in Procs |-> IF p = 1 THEN "called" ELSE "idle"]
  /\ \E dt \in ConvertInstants, o \in OffsetRange :
       call = [p \in Procs |->
                IF p = 1 THEN [op |-> "convert", dt |-> dt, offset_minutes |-> o]
                         ELSE NoCall]
  /\ row = [p \in Procs |-> NoRow]
  /\ result = [p \in Procs |-> "none"]
  /\ sweepPc = "idle"
  /\ expired = <<>>
  /\ conv = [u \in Users |-> "END"]
  /\ selected = [u \in Users |-> NULL]
  /\ holdRace = "none"
  /\ admin = NoAdmin
  /\ slots = <<>>
  /\ requests = <<>>
  /\ rowLock = <<>>
  /\ confirmedSince = <<>>
  /\ holder = [s \in DOMAIN slots |-> NULL]

\* Both conversions of dt, and each converted back by the other function.
Convert ==
  /\ pc[1] = "called"
  /\ call[1].op = "convert"
  /\ pc' = [pc EXCEPT ![1] = "idle"]
  /\ LET dt == call[1].dt
         o == call[1].offset_minutes
     IN result' = [result EXCEPT ![1] =
          [local |-> utc_to_user_tz(dt, o),
           utc |-> user_tz_to_utc(dt, o),
           local_to_utc |-> user_tz_to_utc(utc_to_user_tz(dt, o), o),
           utc_to_local |-> utc_to_user_tz(user_tz_to_utc(dt, o), o)]]
  /\ UNCHANGED <<admin, now, slots, requests, rowLock, call, row, sweepPc,
                 expired, conv, selected, confirmedSince, holder, holdRace>>

NextConvert == Convert

SpecConvert == InitConvert /\ [][NextConvert]_vars

\* ======================================================================
\* Properties
\* ======================================================================
\* The step in which session p finishes operation o (check, write, commit).
Finishing(p, o) == pc[p] = "locked" /\ call[p].op = o /\ pc'[p] # "locked"

\* The step in which the cleanup job commits its writes.
SweepCommitStep == sweepPc = "selected" /\ sweepPc' = "idle"

\* C1: in every reachable state each slot has status BOOKED if and only if
\* its booked_request_id is not null.
C1_BookedIffRequestId ==
  \A s \in DOMAIN slots :
    (slots[s].status = "BOOKED") <=> (slots[s].booked_request_id # NULL)

\* C2: a slot is never double-booked: two different requests never both
\* obtain a successful confirmBooking on the same slot without a
\* releaseBooked on that slot in between.
C2_NoDoubleBooking ==
  \A s \in DOMAIN slots : Cardinality(confirmedSince[s]) <= 1

\* C3: of two hold calls that overlap on the same AVAILABLE slot (and with
\* no other write to the slot until both have returned), exactly one
\* succeeds and the other returns NotAvailable.
HoldRaceOver ==
  /\ holdRace = "on"
  /\ \A p \in Procs : pc[p] \in {"idle", "returned"}

C3_ConcurrentHoldsOneWinner ==
  HoldRaceOver => {result[p] : p \in Procs} = {"ok", "NotAvailable"}

C3_Witness ==
  /\ HoldRaceOver
  /\ result[1] = "NotAvailable" /\ result[2] = "ok"
  /\ slots[1].status = "HELD"

\* C4: once a request has been submitted against a slot (chat flow or web
\* form) and while it is still PENDING, no sweep returns that slot to
\* AVAILABLE.
C4_PendingRequestKeepsSlot ==
  [][SweepCommitStep =>
       \A s \in DOMAIN slots :
         (slots[s].status # "AVAILABLE" /\ slots'[s].status = "AVAILABLE") =>
           ~\E r \in DOMAIN requests :
               requests[r].status = "PENDING" /\ requests[r].slot_id = s]_vars

\* C5: the sweep sets a slot to AVAILABLE only if, at the moment its write
\* takes effect, the slot is HELD with updated_at older than 15 minutes.
C5_SweepWritesOnlyExpiredHolds ==
  [][SweepCommitStep =>
       \A s \in DOMAIN slots :
         (slots'[s] # slots[s] /\ slots'[s].status = "AVAILABLE") =>
           /\ slots[s].status = "HELD"
           /\ slots[s].updated_at < now - HOLD_DURATION_MINUTES]_vars

\* C6: every change of a slot's status is an edge of the state machine taken
\* by the operation assigned to it: AVAILABLE -> HELD by hold, HELD -> BOOKED
\* by confirmBooking, HELD -> AVAILABLE by release or by a sweep of an
\* expired lease, BOOKED -> AVAILABLE by releaseBooked.
LifecycleEdge(s) ==
  LET a == slots[s].status
      b == slots'[s].status
      by(o) == \E p \in Procs : Finishing(p, o) /\ call[p].slot = s
  IN a # b =>
       \/ a = "AVAILABLE" /\ b = "HELD" /\ by("hold")
       \/ a = "HELD" /\ b = "BOOKED" /\ by("confirm")
       \/ a = "HELD" /\ b = "AVAILABLE" /\ by("release")
       \/ /\ a = "HELD" /\ b = "AVAILABLE" /\ SweepCommitStep
          /\ slots[s].updated_at <= now - HOLD_DURATION_MINUTES
       \/ a = "BOOKED" /\ b = "AVAILABLE" /\ by("releaseBooked")

C6_StatusChangesFollowLifecycle ==
  [][\A s \in DOMAIN slots : LifecycleEdge(s)]_vars

\* C7: in every reachable state at most one request whose status is
\* non-terminal has slot_id referring to a given slot.
NonTerminal == {"PENDING", "NEGOTIATING"}

C7_OneOpenRequestPerSlot ==
  \A s \in DOMAIN slots :
    Cardinality({r \in DOMAIN requests :
                   requests[r].status \in NonTerminal /\ requests[r].slot_id = s}) <= 1

\* C8: hold(slotId) succeeds exactly when the slot exists and is AVAILABLE,
\* and then sets status HELD and updated_at to the current time (nothing
\* else); a missing slot gives NotFound, any other status NotAvailable, and
\* a failing hold leaves the slot store unchanged.
C8_HoldContract ==
  [][\A p \in Procs :
       Finishing(p, "hold") =>
         LET s == call[p].slot
             exists == s \in DOMAIN slots
         IN /\ (result'[p] = "ok") <=> (exists /\ slots[s].status = "AVAILABLE")
            /\ result'[p] = "ok" =>
                 /\ slots'[s] = [slots[s] EXCEPT !.status = "HELD", !.updated_at = now]
                 /\ \A o \in DOMAIN slots \ {s} : slots'[o] = slots[o]
            /\ ~exists => result'[p] = "NotFound"
            /\ (exists /\ slots[s].status # "AVAILABLE") => result'[p] = "NotAvailable"
            /\ result'[p] # "ok" => slots' = slots]_vars

C8_Witness ==
  /\ pc[1] = "returned" /\ call[1].op = "hold" /\ call[1].slot = 1
  /\ result[1] = "NotAvailable"
  /\ slots[1].status = "HELD" /\ slots[1].updated_at = TickStep /\ now > TickStep

\* C9: confirmBooking on an existing slot succeeds exactly when the slot is
\* HELD, and then sets status BOOKED and booked_request_id = requestId; in
\* any other status it fails with WrongState and changes neither the slot
\* nor the request.
C9_ConfirmBookingContract ==
  [][\A p \in Procs :
       (Finishing(p, "confirm") /\ call[p].slot \in DOMAIN slots) =>
         LET s == call[p].slot
             r == call[p].req
         IN /\ (result'[p] = "ok") <=> (slots[s].status = "HELD")
            /\ result'[p] = "ok" =>
                 /\ slots'[s].status = "BOOKED"
                 /\ slots'[s].booked_request_id = r
            /\ result'[p] # "ok" =>
                 /\ result'[p] = "WrongState"
                 /\ slots' = slots
                 /\ requests' = requests]_vars

C9_Witness ==
  /\ slots[1].status = "BOOKED" /\ slots[1].booked_request_id = 2
  /\ pc[1] = "returned" /\ call[1].op = "confirm" /\ result[1] = "WrongState"
  /\ result[2] = "ok"

\* C10: a successful confirmBooking sets the request's slot_id to the slot
\* and its scheduled_time to the slot's start; with autoConfirmRequest =
\* false the request's status is what it was before the call, with
\* autoConfirmRequest = true it becomes CONFIRMED; no other request changes.
C10_ConfirmBookingRequestEffect ==
  [][\A p \in Procs :
       (/\ Finishing(p, "confirm")
        /\ result'[p] = "ok"
        /\ call[p].req \in DOMAIN requests) =>
         LET s == call[p].slot
             r == call[p].req
         IN /\ requests'[r].slot_id = s
            /\ requests'[r].scheduled_datetime = slots[s].start_time
            /\ ~call[p].flag => requests'[r].status = requests[r].status
            /\ call[p].flag => requests'[r].status = "CONFIRMED"
            /\ \A o \in DOMAIN requests \ {r} : requests'[o] = requests[o]]_vars

C10_Witness ==
  /\ requests[1].status = "PENDING" /\ requests[1].slot_id = 1
  /\ requests[1].scheduled_datetime = slots[1].start_time
  /\ requests[2].status = "CONFIRMED" /\ requests[2].slot_id = 1
  /\ slots[1].status = "BOOKED" /\ slots[1].booked_request_id = 1

\* C11: confirmBooking called with a request id that is not stored does not
\* report success: it returns NotFound, as it does for a slot id that is not
\* stored.
C11_ConfirmMissingRequestNotFound ==
  [][\A p \in Procs :
       (Finishing(p, "confirm") /\ call[p].req \notin DOMAIN requests) =>
         /\ result'[p] # "ok"
         /\ (call[p].slot \in DOMAIN slots /\ slots[call[p].slot].status = "HELD")
              => result'[p] = "NotFound"]_vars

\* C12: release(slotId) moves a HELD slot to AVAILABLE; on a slot that is
\* not HELD (AVAILABLE, BOOKED, or already released by a sweep) it is a
\* no-op that raises no error and changes nothing of the slot.
C12_ReleaseContract ==
  [][\A p \in Procs :
       (Finishing(p, "release") /\ call[p].slot \in DOMAIN slots) =>
         LET s == call[p].slot
         IN IF slots[s].status = "HELD"
              THEN /\ result'[p] = "ok"
                   /\ slots'[s].status = "AVAILABLE"
                   /\ slots'[s].booked_request_id = slots[s].booked_request_id
              ELSE /\ result'[p] = "noop"
                   /\ slots' = slots]_vars

C12_Witness ==
  /\ pc[1] = "returned" /\ call[1].op = "release" /\ result[1] = "noop"
  /\ slots[1].status = "BOOKED" /\ slots[1].booked_request_id = 2
  /\ result[2] = "ok"

\* C13: releaseBooked(slotId) on an existing BOOKED slot sets status
\* AVAILABLE and booked_request_id to null; on a slot id that is not stored
\* it returns NotFound and changes nothing.
C13_ReleaseBookedContract ==
  [][\A p \in Procs :
       Finishing(p, "releaseBooked") =>
         LET s == call[p].slot
         IN /\ s \notin DOMAIN slots =>
                 /\ result'[p] = "NotFound"
                 /\ slots' = slots
                 /\ requests' = requests
            /\ (s \in DOMAIN slots /\ slots[s].status = "BOOKED") =>
                 /\ result'[p] = "ok"
                 /\ slots'[s].status = "AVAILABLE"
                 /\ slots'[s].booked_request_id = NULL]_vars

\* Request 1 was confirmed on slot 1 and the slot is free again before any
\* lease could expire.
C13_Witness ==
  /\ now = 0
  /\ requests[1].slot_id = 1
  /\ slots[1].status = "AVAILABLE" /\ slots[1].booked_request_id = NULL
  /\ pc[1] = "idle" /\ result[1] = "ok"

\* C14: releaseBooked applied to a slot that is not BOOKED (HELD or
\* AVAILABLE) does not change that slot's status.
C14_ReleaseBookedOnlyFromBooked ==
  [][\A p \in Procs :
       (/\ Finishing(p, "releaseBooked")
        /\ call[p].slot \in DOMAIN slots
        /\ slots[call[p].slot].status # "BOOKED") =>
         slots'[call[p].slot].status = slots[call[p].slot].status]_vars

\* C15: a hold granted at time T and not touched since is released by a
\* sweep run at any time >= T + 15 minutes (exactly T + 15 included) and is
\* left HELD by a sweep run before T + 15 minutes: in every reachable state
\* the sweep's SELECT finds a HELD slot exactly when its lease is 15 minutes
\* old or older.
C15_SweepAtLeaseBoundary ==
  \A s \in DOMAIN slots :
    slots[s].status = "HELD" =>
      ((s \in release_expired_select)
         <=> (now >= slots[s].updated_at + HOLD_DURATION_MINUTES))

\* C16: unfinished holds are reclaimed: with the clock advancing and the
\* sweep recurring, a slot that is HELD (early enough for the bounded clock
\* to pass its lease) eventually leaves HELD: it is confirmed, released, or
\* made AVAILABLE again by the sweep.
C16_HeldEventuallyReclaimed ==
  \A s \in SlotArgs :
    (/\ s \in DOMAIN slots
     /\ slots[s].status = "HELD"
     /\ slots[s].updated_at + HOLD_DURATION_MINUTES < LastTick)
      ~> (s \in DOMAIN slots /\ slots[s].status \in {"AVAILABLE", "BOOKED"})

\* An abandoned chat selection (no request was ever stored) whose slot the
\* sweep has made AVAILABLE again.
C16_Witness ==
  /\ requests = <<>>
  /\ selected[1] = 1
  /\ slots[1].status = "AVAILABLE"
  /\ slots[1].updated_at > HOLD_DURATION_MINUTES

\* C17: in a sweep run that found several expired holds, each release is
\* independent: when the release of one slot fails, every other expired
\* hold found by that run still ends AVAILABLE.
C17_SweepReleasesIndependently ==
  [][(sweepPc = "selected" /\ sweepPc' = "raised") =>
       Cardinality({s \in DOMAIN expired : slots'[s].status # "AVAILABLE"}) <= 1]_vars

\* C18: whenever the operator rejects a PENDING request that is linked to a
\* slot, by the slot_reject button or by the reject button of the request
\* detail view, the request ends REJECTED and the slot is released: it is
\* no longer BOOKED and its booked_request_id is null (it is AVAILABLE,
\* unless another client has taken a new hold on it meanwhile).
C18_RejectReleasesSlot ==
  [][\A r \in DOMAIN requests :
       (/\ requests[r].status = "PENDING"
        /\ requests[r].slot_id # NULL
        /\ requests'[r].status = "REJECTED") =>
         LET s == requests[r].slot_id
         IN /\ slots'[s].status # "BOOKED"
            /\ slots'[s].booked_request_id = NULL]_vars

\* C19: when the operator approves a slot-based request with slot_approve,
\* the request goes from PENDING to CONFIRMED and the linked slot is BOOKED
\* with booked_request_id equal to that request both before and after the
\* approval.
SlotApproveStep(r) ==
  /\ requests[r].status = "PENDING"
  /\ requests[r].slot_id # NULL
  /\ requests'[r].status = "CONFIRMED"
  /\ requests'[r].final_time = slots[requests[r].slot_id].start_time

C19_ApprovedRequestOwnsSlot ==
  [][\A r \in DOMAIN requests :
       SlotApproveStep(r) =>
         LET s == requests[r].slot_id
         IN /\ slots[s].status = "BOOKED" /\ slots[s].booked_request_id = r
            /\ slots'[s].status = "BOOKED" /\ slots'[s].booked_request_id = r]_vars

\* C20: hold followed by release is a round trip on the booking state:
\* neither step touches booked_request_id, the released slot is AVAILABLE
\* again, and a further hold on it then succeeds.
C20_HoldReleaseRoundTrip ==
  [][\A p \in Procs :
       LET s == call[p].slot IN
         /\ (Finishing(p, "hold") /\ result'[p] = "ok") =>
              /\ slots[s].status = "AVAILABLE" /\ slots'[s].status = "HELD"
              /\ slots'[s].booked_request_id = slots[s].booked_request_id
         /\ (Finishing(p, "release") /\ result'[p] = "ok") =>
              /\ slots[s].status = "HELD" /\ slots'[s].status = "AVAILABLE"
              /\ slots'[s].booked_request_id = slots[s].booked_request_id
              /\ slots'[s].booked_request_id = NULL
              /\ hold_slot_result([found |-> TRUE, status |-> slots'[s].status,
                                   start_time |-> slots'[s].start_time]) = "ok"]_vars

\* The slot was held and released before any lease could expire, and a
\* further hold has read it AVAILABLE.
C20_Witness ==
  /\ now = TickStep
  /\ slots[1].status = "AVAILABLE" /\ slots[1].updated_at = TickStep
  /\ slots[1].booked_request_id = NULL
  /\ pc[2] = "locked" /\ call[2].op = "hold" /\ row[2].status = "AVAILABLE"

\* C21: the exclusive lock on a slot row is never held while a message is
\* sent to a user or operator, the early returns of a lifecycle operation
\* included.
C21_NoLockWhileNotifying ==
  \A p \in Procs :
    Notifying(p) => \A s \in DOMAIN rowLock : rowLock[s] # p

\* C22: hasOverlap(start, end, isOnline, excludeSlotId) is true if and only
\* if some stored slot of the same class, other than the excluded id, has
\* existing.start < end and existing.end > start (touching endpoints are no
\* overlap, the other class never counts), and the check changes no slot.
C22_OverlapIffIntersects ==
  [][call'[1].op = "check_slot_overlap" =>
       LET q == call'[1]
       IN /\ result'[1] =
               (\E s \in DOMAIN slots :
                  /\ {s} # q.exclude_slot_id
                  /\ slots[s].is_online = q.is_online
                  /\ slots[s].start_time < q.end_time
                  /\ slots[s].end_time > q.start_time)
          /\ slots' = slots]_vars

\* [0,1) asked against a store whose only slot of that class is [1,2): they
\* touch, and the answer is no overlap.
C22_Witness ==
  /\ call[1].op = "check_slot_overlap"
  /\ call[1].start_time = 0 /\ call[1].end_time = 1 /\ call[1].is_online
  /\ call[1].exclude_slot_id = {}
  /\ slots[1].start_time = 1 /\ slots[1].end_time = 2 /\ slots[1].is_online
  /\ slots[2].start_time = 0 /\ slots[2].end_time = 1 /\ ~slots[2].is_online
  /\ result[1] = FALSE

\* create_slot_confirm_input is the only handler that leaves the state
\* CREATE_SLOT_CONFIRM, and create_slot_overlap_callback the only one that
\* takes the question's buttons away.
ConfirmInputStep ==
  admin.state = "CREATE_SLOT_CONFIRM" /\ admin'.state # "CREATE_SLOT_CONFIRM"

OverlapAnswerStep == admin.question /\ ~admin'.question

\* The slot a step has just stored, if it stored one.
Created(P(_)) ==
  DOMAIN slots' # DOMAIN slots => P(slots'[NextSlotId])

\* C23: slot creation is refused with InvalidTimeRange when start is not
\* strictly after the current time, when end is not after start, or when the
\* duration is below 15 or above 240 minutes; otherwise the slot is stored
\* AVAILABLE with booked_request_id null.  So every slot stored was, at the
\* time it was stored, strictly in the future and 15 to 240 minutes long, and
\* the end-time handler refuses exactly the other inputs.
C23_CreationRefusesInvalidTimeRange ==
  [][/\ LET Valid(s) == /\ s.start_time > now
                        /\ s.end_time > s.start_time
                        /\ s.end_time - s.start_time >= 15
                        /\ s.end_time - s.start_time <= 240
                        /\ s.status = "AVAILABLE"
                        /\ s.booked_request_id = NULL
        IN Created(Valid)
     /\ ConfirmInputStep =>
          LET c == call'[BotProc]
          IN (result'[BotProc] = "InvalidTimeRange") <=>
               ~ /\ c.start_utc > now
                 /\ c.end_utc > c.start_utc
                 /\ c.end_utc - c.start_utc >= 15
                 /\ c.end_utc - c.start_utc <= 240]_vars

\* C24: every slot in the store has end_time after start_time and a duration
\* between 15 and 240 minutes inclusive, whether it was created directly or
\* through the overlap confirmation, and also when its end time was rolled
\* to the next day.
C24_StoredSlotDuration ==
  \A s \in DOMAIN slots :
    /\ slots[s].end_time > slots[s].start_time
    /\ slots[s].end_time - slots[s].start_time >= 15
    /\ slots[s].end_time - slots[s].start_time <= 240

\* The overlap confirmation has just stored a slot that ends on the next day,
\* over a directly created one that does so too.
C24_Witness ==
  /\ call[BotProc].op = "create_slot_overlap_callback"
  /\ result[BotProc] = "created"
  /\ DOMAIN slots = {1, 2}
  /\ slots[2].start_time = call[BotProc].start_utc
  /\ slots[2].start_time < Day /\ slots[2].end_time > Day
  /\ slots[1].end_time > Day /\ slots[1].end_time # slots[2].end_time

\* The text  prefix sign hours [:minutes]  and the offset it stands for.
OffsetText(prefix, sg, h, m) ==
  [text |-> prefix \o sg \o h.text \o m.text,
   val |-> (IF sg = <<"+">> THEN 1 ELSE 0 - 1) * (60 * h.val + m.val)]

WellFormedOffsets ==
  {OffsetText(prefix, sg, h, m) :
     prefix \in {<<"U", "T", "C">>, <<"G", "M", "T">>, <<"u", "t", "c">>},
     sg \in {<<"+">>, <<"-">>}, h \in HourTexts, m \in MinuteTexts}

\* C25: for well-formed input offsetFromString returns sign * (60 * hours +
\* minutes) when that lies in -720..+840 and InvalidFormat when it lies
\* outside; "UTC+4" gives 240, "UTC-5:30" -330, "UTC+14" 840, "UTC-12" -720,
\* "UTC+15" InvalidFormat; a returned value is always within -720..+840.
C25_OffsetValueAndRange ==
  Parsed =>
    /\ \A w \in WellFormedOffsets :
         call[1].offset_str = w.text =>
           result[1] = IF 0 - 720 <= w.val /\ w.val <= 840 THEN {w.val} ELSE {}
    /\ call[1].offset_str = <<"U", "T", "C", "+", "4">> => result[1] = {240}
    /\ call[1].offset_str = <<"U", "T", "C", "-", "5", ":", "3", "0">>
         => result[1] = {0 - 330}
    /\ call[1].offset_str = <<"U", "T", "C", "+", "1", "4">> => result[1] = {840}
    /\ call[1].offset_str = <<"U", "T", "C", "-", "1", "2">> => result[1] = {0 - 720}
    /\ call[1].offset_str = <<"U", "T", "C", "+", "1", "5">> => result[1] = {}
    /\ \A v \in result[1] : 0 - 720 <= v /\ v <= 840

\* "UTC+14:01" has been parsed: 841 minutes, one past the range.
C25_Witness ==
  /\ Parsed
  /\ call[1].offset_str = <<"U", "T", "C", "+", "1", "4", ":", "0", "1">>
  /\ result[1] = {}

\* A text of one of the forms UTC+-H, UTC+-H:MM, GMT+-H (here also GMT+-H:MM),
\* in any case and with whitespace anywhere.
AcceptedForm(text) ==
  upper(SelectSeq(text, LAMBDA c : c # " ")) \in {w.text : w \in WellFormedOffsets}

\* C26: offsetFromString accepts only the forms UTC+-H, UTC+-H:MM and GMT+-H
\* (case-insensitive, optional whitespace) and answers InvalidFormat to every
\* other string: a missing prefix, a missing sign, a doubled sign, a signed or
\* out-of-range minutes field, more than one colon.
C26_OnlyOffsetFormsAccepted ==
  Parsed => (result[1] # {} => AcceptedForm(call[1].offset_str))

\* C27: getAvailableSlots(isOnline, fromTime, toTime, limit) returns only
\* slots that are AVAILABLE at the time of the read, of the requested class,
\* with start_time strictly after fromTime (the current time when omitted)
\* and strictly before toTime when given, in ascending start_time order, at
\* most limit of them, and never a HELD or BOOKED slot.
C27_AvailableSlotsQuery ==
  [][(pc[1] = "called" /\ pc'[1] = "idle" /\ call[1].op = "get_available_slots") =>
       LET q == call[1]
           r == result'[1]
       IN /\ Len(r) <= q.limit
          /\ \A i \in DOMAIN r :
               /\ r[i] \in DOMAIN slots
               /\ slots[r[i]].status = "AVAILABLE"
               /\ slots[r[i]].status \notin {"HELD", "BOOKED"}
               /\ slots[r[i]].is_online = q.is_online
               /\ \A f \in q.from_date : slots[r[i]].start_time > f
               /\ q.from_date = {} => slots[r[i]].start_time > now
               /\ \A u \in q.to_date : slots[r[i]].start_time < u
          /\ \A i, j \in DOMAIN r :
               i < j => slots[r[i]].start_time <= slots[r[j]].start_time]_vars

\* Three online slots start after the clock's time, the first of them HELD:
\* asked for one online slot from now on, the read returns the earlier of
\* the two AVAILABLE ones.
C27_Witness ==
  /\ pc[1] = "idle" /\ call[1].op = "get_available_slots"
  /\ call[1].is_online /\ call[1].from_date = {} /\ call[1].to_date = {}
  /\ call[1].limit = 1
  /\ now = 5
  /\ \A s \in DOMAIN slots : slots[s].is_online
  /\ slots[1].status = "HELD" /\ slots[1].start_time = 7
  /\ slots[2].status = "AVAILABLE" /\ slots[2].start_time = 12
  /\ slots[3].start_time = 7
  /\ result[1] = <<3>>

\* C28: toUtc and toLocal are inverse for every instant t and every offset o
\* in -720..+840: toUtc(toLocal(t, o), o) = t and toLocal(toUtc(t, o), o) = t,
\* toLocal adding and toUtc subtracting o minutes.
C28_ConversionsInverse ==
  (pc[1] = "idle" /\ call[1].op = "convert") =>
    /\ result[1].local_to_utc = call[1].dt
    /\ result[1].utc_to_local = call[1].dt
    /\ result[1].local = call[1].dt + call[1].offset_minutes
    /\ result[1].utc = call[1].dt - call[1].offset_minutes

\* 12:00 converted with UTC-5:30: 06:30 local, 17:30 as UTC.
C28_Witness ==
  /\ pc[1] = "idle" /\ call[1].op = "convert"
  /\ call[1].dt = 720 /\ call[1].offset_minutes = 0 - 330
  /\ result[1].local = 390 /\ result[1].utc = 1050
  /\ result[1].local_to_utc = 720

\* A step of an operator's approve handler on request r: no session is in an
\* operation, and nothing but request r is written.
ApproveStep(r) ==
  /\ pc[BotProc] = "idle"
  /\ pc' = pc /\ call' = call /\ slots' = slots
  /\ DOMAIN requests' = DOMAIN requests
  /\ \A q \in DOMAIN requests : q # r => requests'[q] = requests[q]

\* C29: in the chat and web booking flows a slot-linked request becomes
\* CONFIRMED only as the result of an operator approval: the client-side slot
\* confirmation is always made with auto_confirm_request = False, a request is
\* PENDING when inserted, and the step that makes it CONFIRMED is an approve
\* action on it.
C29_ConfirmedOnlyByApproval ==
  [][/\ \A p \in Procs : call'[p].op = "contacts" => ~call'[p].flag
     /\ \A r \in DOMAIN requests' :
          /\ r \notin DOMAIN requests => requests'[r].status = "PENDING"
          /\ (/\ requests'[r].slot_id # NULL
              /\ requests'[r].status = "CONFIRMED"
              /\ r \in DOMAIN requests => requests[r].status # "CONFIRMED")
               => r \in DOMAIN requests /\ ApproveStep(r)]_vars

\* A request that the chat flow linked to a slot and left PENDING has been
\* approved: it is CONFIRMED and its slot is BOOKED for it.
C29_Witness ==
  \E r \in DOMAIN requests :
    /\ requests[r].status = "CONFIRMED"
    /\ requests[r].slot_id \in DOMAIN slots
    /\ requests[r].user_id \in Users
    /\ slots[requests[r].slot_id].status = "BOOKED"
    /\ slots[requests[r].slot_id].booked_request_id = r

\* The interval and class of a new slot intersect a stored slot.
Intersects(start_utc, end_utc, is_online) ==
  \E s \in DOMAIN slots :
    /\ slots[s].is_online = is_online
    /\ slots[s].start_time < end_utc
    /\ slots[s].end_time > start_utc

\* C30: when the overlap check reports an overlap at slot creation, the slot
\* is created only after the operator explicitly answers yes; answering no
\* creates no slot; and when no overlap is reported the slot is created
\* without a further question.
C30_OverlapNeedsConfirmation ==
  [][LET c == call'[BotProc]
         accepted == result'[BotProc] # "InvalidTimeRange"
         overlap == Intersects(c.start_utc, c.end_utc, admin.slot_is_online)
         created == DOMAIN slots' # DOMAIN slots
     IN /\ created => ConfirmInputStep \/ OverlapAnswerStep
        /\ ConfirmInputStep /\ accepted /\ overlap =>
             ~created /\ admin'.question
                      /\ admin'.slot_utc = <<c.start_utc, c.end_utc>>
        /\ ConfirmInputStep /\ accepted /\ ~overlap =>
             /\ created /\ admin'.question = admin.question
             /\ slots'[NextSlotId].start_time = c.start_utc
             /\ slots'[NextSlotId].end_time = c.end_utc
        /\ OverlapAnswerStep =>
             /\ c.data \in {"slot_create_yes", "slot_create_no"}
             /\ created <=> c.data = "slot_create_yes"
             /\ created => /\ slots'[NextSlotId].start_time = admin.slot_utc[1]
                           /\ slots'[NextSlotId].end_time = admin.slot_utc[2]]_vars

\* The operator answered yes to the overlap question: the store holds the
\* first slot and, over it, the one the answer confirmed.
C30_Witness ==
  /\ call[BotProc].op = "create_slot_overlap_callback"
  /\ call[BotProc].data = "slot_create_yes"
  /\ DOMAIN slots = {1, 2}
  /\ slots[1].start_time = 5 /\ slots[1].end_time = 20
  /\ slots[2].start_time = 5 /\ slots[2].end_time = 245
  /\ slots[1].is_online /\ slots[2].is_online
  /\ ~admin.question
  /\ now = 0

\* C31: every operation that changes a slot's status (hold, release,
\* confirmBooking, releaseBooked, sweep) sets updated_at to the time of that
\* transition (for the sweep: the time its loop assigned), so updated_at
\* never decreases, and a hold granted again at T2 has its lease measured
\* from T2.
C31_UpdatedAtFollowsTransitions ==
  [][\A s \in DOMAIN slots :
       /\ slots'[s].updated_at >= slots[s].updated_at
       /\ slots'[s].status # slots[s].status =>
            \/ slots'[s].updated_at = now
            \/ SweepCommitStep /\ s \in DOMAIN expired
                               /\ slots'[s].updated_at = expired[s]
       /\ (slots'[s].status = "HELD" /\ slots[s].status # "HELD") =>
            slots'[s].updated_at = now]_vars

\* C32: lease expiry is enforced only by the sweeper: confirmBooking on a slot
\* that is still HELD succeeds, however long ago the hold was granted, as
\* long as no sweep run has released the slot in between.
C32_ConfirmIgnoresLeaseAge ==
  [][\A p \in Procs :
       LET s == call[p].slot
           r == call[p].req
       IN (Finishing(p, "confirm") /\ s \in DOMAIN slots /\ slots[s].status = "HELD") =>
            /\ result'[p] = "ok"
            /\ slots'[s].status = "BOOKED"
            /\ slots'[s].booked_request_id = r]_vars

\* The cleanup job has found the hold on slot 1 expired but has not yet
\* committed, and the slot has been booked at that same time.
C32_Witness ==
  /\ sweepPc = "selected"
  /\ 1 \in DOMAIN expired
  /\ slots[1].status = "BOOKED"
  /\ slots[1].updated_at = now
  /\ expired[1] = now

\* C33: slot_approve and slot_reject take effect only on a PENDING request:
\* invoked one after another, the second decision on the same request, in
\* either order, is refused and changes neither the request's status nor any
\* slot.
C33_SecondDecisionRefused ==
  [][\A r \in DOMAIN requests :
       requests[r].status \in {"CONFIRMED", "REJECTED"} =>
         /\ requests'[r].status = requests[r].status
         /\ ~(call'[BotProc].op = "slot_reject" /\ call'[BotProc].req = r)
         /\ (result'[BotProc] = "processed" /\ result[BotProc] # "processed") =>
              slots' = slots /\ requests' = requests]_vars

\* The request was approved, its slot is BOOKED for it, and a further press
\* of one of its buttons has been answered "already processed".
C33_Witness ==
  \E r \in DOMAIN requests :
    /\ requests[r].status = "CONFIRMED"
    /\ requests[r].slot_id \in DOMAIN slots
    /\ slots[requests[r].slot_id].status = "BOOKED"
    /\ slots[requests[r].slot_id].booked_request_id = r
    /\ result[BotProc] = "processed"

\* Requests stored by the web form (user_id = 0).
WebRequests(reqs) == {r \in DOMAIN reqs : reqs[r].user_id = 0}

\* C34: the web submission creates a booking request only when the hold on
\* the chosen slot succeeded: when hold fails it answers with an error and
\* stores no request, and when hold succeeds it stores exactly one PENDING
\* request whose slot_id is the held slot.
C34_WebRequestOnlyAfterHold ==
  [][LET held == Finishing(WebProc, "web_submit")
         s == call[WebProc].slot
     IN /\ (held /\ result'[WebProc] # "ok") =>
             pc'[WebProc] = "returned" /\ requests' = requests /\ slots' = slots
        /\ (held /\ result'[WebProc] = "ok") =>
             /\ slots[s].status = "AVAILABLE" /\ slots'[s].status = "HELD"
             /\ pc'[WebProc] = "web_add" /\ requests' = requests
        /\ pc[WebProc] = "returned" => WebRequests(requests') = WebRequests(requests)
        /\ WebRequests(requests') # WebRequests(requests) =>
             /\ pc[WebProc] = "web_add" /\ result[WebProc] = "ok"
             /\ requests' = Append(requests, requests'[Len(requests) + 1])
             /\ requests'[Len(requests) + 1].status = "PENDING"
             /\ requests'[Len(requests) + 1].slot_id = s
        /\ (pc[WebProc] = "web_add" /\ pc'[WebProc] # "web_add") =>
             Len(requests') = Len(requests) + 1]_vars

\* A submission has stored its request for the slot it held, and a later one
\* for the same slot has been refused and is about to answer with its error.
C34_Witness ==
  /\ pc[WebProc] = "returned" /\ call[WebProc].op = "web_submit"
  /\ result[WebProc] = "NotAvailable"
  /\ Len(requests) = 1
  /\ requests[1].user_id = 0 /\ requests[1].slot_id = call[WebProc].slot
  /\ requests[1].status = "PENDING"
  /\ slots[1].status = "HELD"

\* C35: confirmBooking succeeds only on behalf of the hold in force: when a
\* confirmation issued by a session succeeds on a slot, the slot's current
\* hold is the one that was granted to that same session, so a hold taken by
\* another caller after the first was swept or released is never consumed.
C35_ConfirmOnlyOwnHold ==
  [][\A p \in Procs :
       ((Finishing(p, "contacts") \/ Finishing(p, "confirm")) /\ result'[p] = "ok")
         => holder[call[p].slot] = p]_vars

\* C36: rejecting a request r through its Reject button changes a slot only
\* if that slot is BOOKED with booked_request_id = r; a slot that is by now
\* held or booked for somebody else is left as it is.
C36_RejectReleasesOnlyOwnBooking ==
  [][(pc[BotProc] = "locked" /\ call[BotProc].op = "slot_reject" /\ slots' # slots)
       => /\ slots[call[BotProc].slot].status = "BOOKED"
          /\ slots[call[BotProc].slot].booked_request_id = call[BotProc].req]_vars

C38_OneHoldPerSession ==
  [][(Finishing(BotProc, "slot_selected") /\ result'[BotProc] = "ok")
       => \A s2 \in DOMAIN slots \ {call[BotProc].slot} :
            ~(slots'[s2].status = "HELD" /\ holder'[s2] = BotProc)]_vars

\* C39: whenever a slot is BOOKED and the request named by its
\* booked_request_id is stored, that request's slot_id is the slot's id: the
\* two sides of the link, written together by confirmBooking, agree.
C39_LinkAgrees ==
  \A s \in DOMAIN slots :
    (slots[s].status = "BOOKED" /\ slots[s].booked_request_id \in DOMAIN requests)
      => requests[slots[s].booked_request_id].slot_id = s

\* Both slots are BOOKED, each for a stored request of its own whose slot_id
\* names it.
C39_Witness ==
  /\ \A s \in {1, 2} :
       /\ s \in DOMAIN slots
       /\ slots[s].status = "BOOKED"
       /\ slots[s].booked_request_id \in DOMAIN requests
       /\ requests[slots[s].booked_request_id].slot_id = s
  /\ slots[1].booked_request_id # slots[2].booked_request_id

\* C40: when confirmBooking fails at the last step of the chat booking flow,
\* the attempt leaves no trace: the slots are unchanged and the request the
\* flow created for the attempt is not left stored as PENDING.
C40_FailedConfirmLeavesNoTrace ==
  [][(Finishing(BotProc, "contacts") /\ result'[BotProc] # "ok")
       => /\ slots' = slots
          /\ ~(/\ call[BotProc].req \in DOMAIN requests'
               /\ requests'[call[BotProc].req].status = "PENDING")]_vars

====
